---- MODULE Spec2Model ----
(***************************************************************************)
(* Model of the raypy2d ray-tracing engine: the Rays batch with its       *)
(* history list (rays.py), free-space propagation, the optical elements   *)
(* (elements/*.py) and the crossing detector.                             *)
(*                                                                         *)
(* Numbers.  The program computes in IEEE doubles; the model computes in  *)
(* integers plus the unset sentinel NaN, on inputs for which every        *)
(* formula of the code has an exact integer (or NaN) value.  Operations   *)
(* whose result would not be an integer on the current batch are disabled *)
(* by the guard Exact... of their action.  NaN behaves as in IEEE: every  *)
(* sum and product with a NaN operand is NaN (also 0 * NaN) and every     *)
(* ordered comparison with a NaN operand is false.                        *)
(*                                                                         *)
(* forward is stored in units of one half: 2 = 1.0 (constructor default), *)
(* 0 = 0.0, 1 = +0.5, -1 = -0.5.  Sign tests and negation are unaffected. *)
(***************************************************************************)
EXTENDS Integers, Sequences, FiniteSets, TLC

VARIABLES arrays, heap, last, pc, cur, ops, ret, elements

vars == <<arrays, heap, last, pc, cur, ops, ret, elements>>

(* ---------------- bounds ---------------- *)
MaxOps == 2
MaxRays == 2

(* the unset sentinel (np.nan); larger than every coordinate of the model *)
NaN == 1000000

(* ---------------- IEEE arithmetic with NaN ---------------- *)
IsNaN(a) == a = NaN
Add(a, b) == IF IsNaN(a) \/ IsNaN(b) THEN NaN ELSE a + b
Sub(a, b) == IF IsNaN(a) \/ IsNaN(b) THEN NaN ELSE a - b
Mul(a, b) == IF IsNaN(a) \/ IsNaN(b) THEN NaN ELSE a * b
Neg(a) == IF IsNaN(a) THEN NaN ELSE 0 - a
Gt(a, b) == ~IsNaN(a) /\ ~IsNaN(b) /\ a > b
Lt(a, b) == ~IsNaN(a) /\ ~IsNaN(b) /\ a < b
Abs(a) == IF IsNaN(a) THEN NaN ELSE IF a < 0 THEN 0 - a ELSE a

(* ---------------- the Rays object ---------------- *)
(* A Rays object is its list `arrays` of array objects; the model keeps   *)
(* object identity: `arrays` holds references into `heap`.  The live      *)
(* array is arrays[-1]; its rows have six columns, snapshots have three.  *)
Rays(a, h) == [arrays |-> a, heap |-> h]

array(R) == R.heap[R.arrays[Len(R.arrays)]]

n(R) == Len(array(R))

(* in-place write through a column view: the live object keeps its identity *)
SetArray(R, rows) == [R EXCEPT !.heap[R.arrays[Len(R.arrays)]] = rows]

(* the array setter: arrays[-1] is rebound to a new object *)
set_array(R, rows) ==
    [arrays |-> [R.arrays EXCEPT ![Len(R.arrays)] = Len(R.heap) + 1],
     heap |-> Append(R.heap, rows)]

copy3(rows) == [i \in 1..Len(rows) |->
                  [x |-> rows[i].x, y |-> rows[i].y, tan_theta |-> rows[i].tan_theta]]

store_nocopy(R) ==
    [arrays |-> Append(R.arrays, R.arrays[Len(R.arrays)]), heap |-> R.heap]

store(R) ==
    LET k == Len(R.arrays)
        live == R.arrays[k]
        snap == Len(R.heap) + 1
    IN [arrays |-> Append([R.arrays EXCEPT ![k] = snap], live),
        heap |-> Append(R.heap, copy3(R.heap[live]))]

(* ---------------- free-space propagation ---------------- *)
(* a propagate that skips the displacement of a ray without direction *)
propagate_row_skipping(r, X) ==
    LET dx == Sub(X, r.x)
        y1 == IF IsNaN(r.tan_theta) THEN r.y ELSE Add(r.y, Mul(r.tan_theta, dx))
        dx0 == IF IsNaN(dx) THEN 0 ELSE dx
    IN [r EXCEPT !.x = X,
                 !.y = IF (dx0 > 0) # Gt(r.forward, 0) THEN NaN ELSE y1]

propagate_row(r, X) ==
    LET dx == Sub(X, r.x)
        y1 == Add(r.y, Mul(r.tan_theta, dx))
        dx0 == IF IsNaN(dx) THEN 0 ELSE dx
    IN [r EXCEPT !.x = X,
                 !.y = IF (dx0 > 0) # Gt(r.forward, 0) THEN NaN ELSE y1]

propagate(R, X) == SetArray(R, [i \in 1..n(R) |-> propagate_row(array(R)[i], X)])

(* ---------------- Rays.append ---------------- *)
Rays_append(R, rows) == set_array(R, array(R) \o rows)

(* ---------------- elements ---------------- *)
(* An element is the record of the fields its constructor sets.  matrix  *)
(* is <<m11, m12, m21, m22>> over the common denominator den (a Lens has *)
(* m21 = -1/f).  Rotations are multiples of 180 degrees, for which the   *)
(* sines, cosines and tangents of the code are integers.                 *)
Element(aperture, origin, theta) ==
    [kind |-> "Element", origin |-> origin, theta |-> theta, aperture |-> aperture,
     matrix |-> <<1, 0, 0, 1>>, den |-> 1, mirroring |-> FALSE,
     f |-> 0, grating |-> 0, interference |-> 0, default_wavelengths |-> <<>>,
     glass |-> "none"]

Aperture(diameter, origin, theta) ==
    [Element(diameter, origin, theta) EXCEPT !.kind = "Aperture"]

Mirror(diameter, origin, theta) ==
    [Aperture(diameter, origin, theta) EXCEPT
        !.kind = "Mirror", !.matrix = <<1, 0, 0, -1>>, !.mirroring = TRUE]

(* a lens whose ray-transfer matrix has +1/f in place of -1/f *)
Lens_diverging(focal_length, diameter, origin, theta) ==
    [Aperture(diameter, origin, theta) EXCEPT
        !.kind = "Lens", !.f = focal_length,
        !.matrix = <<focal_length, 0, 1, focal_length>>, !.den = focal_length]

Lens(focal_length, diameter, origin, theta) ==
    [Aperture(diameter, origin, theta) EXCEPT
        !.kind = "Lens", !.f = focal_length,
        !.matrix = <<focal_length, 0, -1, focal_length>>, !.den = focal_length]

ParabolicMirror(focal_length, diameter, origin, theta) ==
    [Lens(focal_length, diameter, origin, theta) EXCEPT
        !.kind = "ParabolicMirror", !.mirroring = TRUE,
        !.matrix = <<focal_length, 0, -1, 0 - focal_length>>]

Sensor(diameter, origin, theta) ==
    [Aperture(diameter, origin, theta) EXCEPT !.kind = "Sensor"]

DiffractionGrating(grating, diameter, origin, theta, interference, default_wavelengths) ==
    [Mirror(diameter, origin, theta) EXCEPT
        !.kind = "DiffractionGrating", !.mirroring = FALSE, !.grating = grating,
        !.interference = interference, !.default_wavelengths = default_wavelengths]

(* The exit face is an Aperture at origin + (sqrt(3), 1) * aperture / 4  *)
(* rotated by theta + 60; the offset is an integer point for aperture 0, *)
(* the prism of the model.                                               *)
DiffractionPrism(diameter, glass, origin, theta, default_wavelengths) ==
    [Mirror(diameter, origin, theta) EXCEPT
        !.kind = "DiffractionPrism", !.mirroring = FALSE, !.glass = glass,
        !.default_wavelengths = default_wavelengths]

second_interface(e) == Aperture(e.aperture, e.origin, e.theta + 60)

Dispersive(e) == e.kind \in {"DiffractionGrating", "DiffractionPrism"}

(* ---------------- frame transforms ---------------- *)
Mod360(a) == a - (a \div 360) * 360

CosDeg(theta) == CASE Mod360(theta) = 0 -> 1
                   [] Mod360(theta) = 180 -> 0 - 1
                   [] OTHER -> 0

SinDeg(theta) == CASE Mod360(theta) = 90 -> 1
                   [] Mod360(theta) = 270 -> 0 - 1
                   [] OTHER -> 0

(* rotation_matrix(theta) applied to one point; 0 * NaN is NaN *)
Rotate(theta, px, py) ==
    <<Sub(Mul(CosDeg(theta), px), Mul(SinDeg(theta), py)),
      Add(Mul(SinDeg(theta), px), Mul(CosDeg(theta), py))>>

points_to_object_frame_of_reference(e, px, py) ==
    LET tx == Sub(px, e.origin[1])
        ty == Sub(py, e.origin[2])
    IN IF e.theta # 0 THEN Rotate(0 - e.theta, tx, ty) ELSE <<tx, ty>>

(* the rotation without the translation by the origin *)
points_to_global_untranslated(e, px, py) ==
    IF e.theta # 0 THEN Rotate(e.theta, px, py) ELSE <<px, py>>

points_to_global_frame_of_reference(e, px, py) ==
    LET r == IF e.theta # 0 THEN Rotate(e.theta, px, py) ELSE <<px, py>>
    IN <<Add(r[1], e.origin[1]), Add(r[2], e.origin[2])>>

(* arctan in degrees.  A heading is only compared with 90 and 270 after  *)
(* a multiple of 180 was added, so a slope is represented by the         *)
(* mid-angle of its quadrant (exact for the slopes -1, 0, 1).            *)
ArcTanDeg(t) == IF IsNaN(t) THEN NaN ELSE IF t = 0 THEN 0 ELSE IF t > 0 THEN 45 ELSE 0 - 45

(* tan(theta * pi / 180) for a multiple of 45 degrees that is no odd     *)
(* multiple of 90: 0 for the element rotations, multiples of 180 degrees *)
TanDeg(theta) == CASE Mod360(theta) % 180 = 45 -> 1
                   [] Mod360(theta) % 180 = 135 -> 0 - 1
                   [] OTHER -> 0

(* exact quotient a / d, d # 0, for a a multiple of d *)
Quot(a, d) == IF IsNaN(a) THEN NaN
              ELSE IF d > 0 THEN a \div d ELSE (0 - a) \div (0 - d)

Divides(d, a) == IF IsNaN(a) THEN TRUE ELSE IF d > 0 THEN a % d = 0 ELSE a % (0 - d) = 0

Heading(r) == Add(ArcTanDeg(r.tan_theta), IF Lt(r.forward, 0) THEN 180 ELSE 0)

ForwardOf(angle) ==
    LET a == IF IsNaN(angle) THEN 90 ELSE angle
    IN IF a < 90 \/ a > 270 THEN 1 ELSE 0 - 1

to_element_row(e, r) ==
    LET p == points_to_object_frame_of_reference(e, r.x, r.y)
        rays_theta == Sub(Heading(r), e.theta)
        t == TanDeg(e.theta)
        norm == IF IsNaN(rays_theta) THEN NaN ELSE Mod360(rays_theta)
    IN [r EXCEPT !.x = p[1], !.y = p[2],
                 !.tan_theta = Quot(Sub(r.tan_theta, t), Add(1, Mul(t, r.tan_theta))),
                 !.forward = ForwardOf(norm)]

to_global_row(e, r) ==
    LET p == points_to_global_frame_of_reference(e, r.x, r.y)
        new_theta == Add(Heading(r), e.theta)
        t == TanDeg(e.theta)
    IN [r EXCEPT !.x = p[1], !.y = p[2],
                 !.forward = ForwardOf(new_theta),
                 !.tan_theta = Quot(Add(t, r.tan_theta), Sub(1, Mul(t, r.tan_theta)))]

(* A rotation that is not a multiple of 180 degrees (the exit face of a  *)
(* prism) maps a ray whose y and tan_theta are unset to unset x, y and   *)
(* tan_theta and an undefined heading, whatever its sines and cosines.   *)
unset_row(r) == [r EXCEPT !.x = NaN, !.y = NaN, !.tan_theta = NaN, !.forward = ForwardOf(NaN)]

HalfTurns(e) == e.theta % 180 = 0

to_element_frame_of_reference(e, R) ==
    SetArray(R, [i \in 1..n(R) |->
        IF HalfTurns(e) THEN to_element_row(e, array(R)[i]) ELSE unset_row(array(R)[i])])

to_global_frame_of_reference(e, R) ==
    SetArray(R, [i \in 1..n(R) |->
        IF HalfTurns(e) THEN to_global_row(e, array(R)[i]) ELSE unset_row(array(R)[i])])

ExactFrame(e, R) ==
    HalfTurns(e) \/ \A i \in 1..n(R) : IsNaN(array(R)[i].y) /\ IsNaN(array(R)[i].tan_theta)

(* ---------------- intersection_with ---------------- *)
Element_intersection_with(e, R) == R

(* integer square root of a perfect square; NaN for a negative argument *)
ISqrt(a) == IF IsNaN(a) \/ a < 0 THEN NaN ELSE CHOOSE r \in 0..a : r * r = a

IsSquare(a) == IF IsNaN(a) \/ a < 0 THEN TRUE ELSE \E r \in 0..a : r * r = a

x_blocker(e) == (e.aperture * e.aperture) \div (16 * e.f)

GeHalf(v, diameter) == IF IsNaN(v) THEN TRUE ELSE 2 * Abs(v) >= diameter

GtHalf(v, diameter) == IF IsNaN(v) THEN TRUE ELSE 2 * Abs(v) > diameter

parabola_x(e, r) ==
    LET a == r.tan_theta
        ay == Mul(a, r.y)
    IN IF a = 0 THEN Quot(Mul(r.y, r.y), 4 * e.f)
       ELSE Quot(Sub(Add(Mul(2, ISqrt(Mul(e.f, Sub(e.f, ay)))), ay), 2 * e.f), Mul(a, a))

parabola_row(e, r) ==
    LET a == r.tan_theta
        x == parabola_x(e, r)
        y == Sub(r.y, Mul(a, x))
        I == GtHalf(y, e.aperture)
        x2 == IF I THEN 0 - x_blocker(e) ELSE x
        y2 == IF I THEN Sub(r.y, Mul(a, x2)) ELSE y
    IN [r EXCEPT !.x = Neg(x2), !.y = y2]

ParabolicMirror_intersection_with(e, R) ==
    SetArray(R, [i \in 1..n(R) |-> parabola_row(e, array(R)[i])])

ExactParabola(e, r) ==
    LET a == r.tan_theta
        ay == Mul(a, r.y)
        root == Mul(e.f, Sub(e.f, ay))
    IN /\ (e.aperture * e.aperture) % (16 * e.f) = 0
       /\ IF IsNaN(a) THEN TRUE
          ELSE IF a = 0 THEN Divides(4 * e.f, Mul(r.y, r.y))
          ELSE /\ IsSquare(root)
               /\ Divides(a * a, Sub(Add(Mul(2, ISqrt(root)), ay), 2 * e.f))

intersection_with(e, R) ==
    IF e.kind = "ParabolicMirror" THEN ParabolicMirror_intersection_with(e, R)
    ELSE Element_intersection_with(e, R)

(* ---------------- transform_rays ---------------- *)
(* rays.za = dot(matrix, za.T).T, then the mirroring flip of forward *)
Element_transform_row_noflip(e, r) ==
    LET m == e.matrix
    IN [r EXCEPT !.y = Quot(Add(Mul(m[1], r.y), Mul(m[2], r.tan_theta)), e.den),
                 !.tan_theta = Quot(Add(Mul(m[3], r.y), Mul(m[4], r.tan_theta)), e.den)]

Element_transform_row(e, r) ==
    LET m == e.matrix
    IN [r EXCEPT !.y = Quot(Add(Mul(m[1], r.y), Mul(m[2], r.tan_theta)), e.den),
                 !.tan_theta = Quot(Add(Mul(m[3], r.y), Mul(m[4], r.tan_theta)), e.den),
                 !.forward = IF e.mirroring THEN 0 - r.forward ELSE r.forward]

Element_transform_rays(e, R) ==
    SetArray(R, [i \in 1..n(R) |-> Element_transform_row(e, array(R)[i])])

ExactMatrix(e, r) ==
    LET m == e.matrix
    IN /\ Divides(e.den, Add(Mul(m[1], r.y), Mul(m[2], r.tan_theta)))
       /\ Divides(e.den, Add(Mul(m[3], r.y), Mul(m[4], r.tan_theta)))

(* wavelength resolution of the dispersive elements: unset rows get the  *)
(* first default wavelength in place; the subset of those rows is        *)
(* appended once per remaining default wavelength.                       *)
(* rows[mask, :] : the rows selected by a boolean mask, in row order *)
RECURSIVE Masked(_, _, _)
Masked(rows, mask, i) ==
    IF i > Len(rows) THEN <<>>
    ELSE (IF mask[i] THEN <<rows[i]>> ELSE <<>>) \o Masked(rows, mask, i + 1)

(* Rays(original_rays) with new_rays.wavelength = w: the constructor sets *)
(* an unset forward to 1.0                                                *)
new_rays_nogroup(original_rays, w) ==
    [i \in 1..Len(original_rays) |->
        [original_rays[i] EXCEPT
            !.forward = IF IsNaN(@) THEN 2 ELSE @,
            !.group = NaN,
            !.wavelength = w]]

new_rays(original_rays, w) ==
    [i \in 1..Len(original_rays) |->
        [original_rays[i] EXCEPT
            !.forward = IF IsNaN(@) THEN 2 ELSE @,
            !.wavelength = w]]

RECURSIVE append_copies(_, _, _)
append_copies(R, original_rays, ws) ==
    IF ws = <<>> THEN R
    ELSE append_copies(Rays_append(R, new_rays(original_rays, ws[1])),
                       original_rays, Tail(ws))

split_wavelengths_every(e, R) ==
    LET rows == array(R)
        I_split == [i \in 1..Len(rows) |-> IsNaN(rows[i].wavelength)]
    IN IF \E i \in 1..Len(rows) : I_split[i]
       THEN LET tagged == [i \in 1..Len(rows) |->
                             IF I_split[i]
                             THEN [rows[i] EXCEPT !.wavelength = e.default_wavelengths[1]]
                             ELSE rows[i]]
            IN append_copies(SetArray(R, tagged), Masked(tagged, I_split, 1),
                             e.default_wavelengths)
       ELSE R

split_wavelengths(e, R) ==
    LET rows == array(R)
        I_split == [i \in 1..Len(rows) |-> IsNaN(rows[i].wavelength)]
    IN IF \E i \in 1..Len(rows) : I_split[i]
       THEN LET tagged == [i \in 1..Len(rows) |->
                             IF I_split[i]
                             THEN [rows[i] EXCEPT !.wavelength = e.default_wavelengths[1]]
                             ELSE rows[i]]
            IN append_copies(SetArray(R, tagged), Masked(tagged, I_split, 1),
                             Tail(e.default_wavelengths))
       ELSE R

(* tan(arcsin(sin(sin(arctan(t))) - interference * w / grating / 1000)): *)
(* 0 for t = 0 and interference * w = 0; unset when the argument of      *)
(* arcsin lies outside [-1, 1], which it does for every t once           *)
(* |interference * w| >= 2000 * grating, and for t = 0 once it exceeds   *)
(* 1000 * grating.                                                       *)
ExactGrating(e, r) ==
    \/ IsNaN(r.tan_theta)
    \/ Abs(e.interference * r.wavelength) >= 2000 * e.grating
    \/ r.tan_theta = 0 /\ (e.interference * r.wavelength = 0
                           \/ Abs(e.interference * r.wavelength) > 1000 * e.grating)

grating_tan(e, r) ==
    IF IsNaN(r.tan_theta) THEN NaN
    ELSE IF r.tan_theta = 0 /\ e.interference * r.wavelength = 0 THEN 0
    ELSE NaN

DiffractionGrating_transform_rays(e, R) ==
    LET S == split_wavelengths(e, R)
    IN SetArray(S, [i \in 1..n(S) |->
                     [array(S)[i] EXCEPT !.tan_theta = grating_tan(e, array(S)[i])]])

(* the prism scales tan_theta by the refractive index n(w) > 1 of the    *)
(* glass or by its inverse; the product is an integer for tan_theta = 0  *)
ExactPrism(e, r) == IsNaN(r.tan_theta) \/ r.tan_theta = 0

DiffractionPrism_transform_rays(e, R, out) ==
    LET S == split_wavelengths(e, R)
    IN SetArray(S, [i \in 1..n(S) |->
                     [array(S)[i] EXCEPT !.tan_theta = IF IsNaN(@) THEN NaN ELSE 0]])

transform_rays(e, R) ==
    CASE e.kind = "DiffractionGrating" -> DiffractionGrating_transform_rays(e, R)
      [] e.kind = "DiffractionPrism" -> DiffractionPrism_transform_rays(e, R, FALSE)
      [] OTHER -> Element_transform_rays(e, R)

ExactTransform(e, R) ==
    CASE e.kind = "DiffractionGrating" ->
             LET S == split_wavelengths(e, R)
             IN \A j \in 1..n(S) : ExactGrating(e, array(S)[j])
      [] e.kind = "DiffractionPrism" -> \A i \in 1..n(R) : ExactPrism(e, array(R)[i])
      [] OTHER -> \A i \in 1..n(R) : ExactMatrix(e, array(R)[i])

(* ---------------- block ---------------- *)
Element_block(e, R) == R

Aperture_block_drop(e, R) ==
    SetArray(R, Masked(array(R),
                       [i \in 1..n(R) |-> ~GtHalf(Abs(array(R)[i].y), e.aperture)], 1))

Aperture_block(e, R) ==
    SetArray(R, [i \in 1..n(R) |->
        IF GtHalf(Abs(array(R)[i].y), e.aperture)
        THEN [array(R)[i] EXCEPT !.tan_theta = NaN]
        ELSE array(R)[i]])

block(e, R) == IF e.kind = "Element" THEN Element_block(e, R) ELSE Aperture_block(e, R)

(* ---------------- trace ---------------- *)
(* The calls of one trace, in program order.  "second" steps act with    *)
(* the prism's exit face.                                                *)
Element_trace_block_first ==
    <<"to_element_frame_of_reference", "propagate", "intersection_with",
      "block", "transform_rays", "to_global_frame_of_reference">>

Element_trace ==
    <<"to_element_frame_of_reference", "propagate", "intersection_with",
      "transform_rays", "block", "to_global_frame_of_reference">>

DiffractionPrism_trace ==
    Element_trace \o
    <<"store", "second.to_element_frame_of_reference", "second.propagate",
      "second.transform_rays", "second.block", "second.to_global_frame_of_reference">>

TraceOf(e) == IF e.kind = "DiffractionPrism" THEN DiffractionPrism_trace ELSE Element_trace

ApplyStep(e, step, R) ==
    CASE step = "to_element_frame_of_reference" -> to_element_frame_of_reference(e, R)
      [] step = "propagate" -> propagate(R, 0)
      [] step = "intersection_with" -> intersection_with(e, R)
      [] step = "transform_rays" -> transform_rays(e, R)
      [] step = "block" -> block(e, R)
      [] step = "to_global_frame_of_reference" -> to_global_frame_of_reference(e, R)
      [] step = "store" -> store(R)
      [] step = "second.to_element_frame_of_reference" ->
             to_element_frame_of_reference(second_interface(e), R)
      [] step = "second.propagate" -> propagate(R, 0)
      [] step = "second.transform_rays" -> DiffractionPrism_transform_rays(e, R, TRUE)
      [] step = "second.block" -> block(second_interface(e), R)
      [] step = "second.to_global_frame_of_reference" ->
             to_global_frame_of_reference(second_interface(e), R)

ExactStep(e, step, R) ==
    CASE step = "to_element_frame_of_reference" -> ExactFrame(e, R)
      [] step = "to_global_frame_of_reference" -> ExactFrame(e, R)
      [] step = "intersection_with" ->
             e.kind = "ParabolicMirror" => \A i \in 1..n(R) : ExactParabola(e, array(R)[i])
      [] step = "transform_rays" -> ExactTransform(e, R)
      [] step = "second.to_element_frame_of_reference" -> ExactFrame(second_interface(e), R)
      [] step = "second.to_global_frame_of_reference" -> ExactFrame(second_interface(e), R)
      [] step = "second.transform_rays" -> \A i \in 1..n(R) : ExactPrism(e, array(R)[i])
      [] OTHER -> TRUE

(* The calls are applied in order; ok is FALSE when a call met a batch   *)
(* outside the integer domain of the model.                              *)
RECURSIVE ApplySteps(_, _, _)
ApplySteps(e, steps, R) ==
    IF steps = <<>> THEN [ok |-> TRUE, rays |-> R]
    ELSE IF ExactStep(e, steps[1], R)
         THEN ApplySteps(e, Tail(steps), ApplyStep(e, steps[1], R))
         ELSE [ok |-> FALSE, rays |-> R]

trace(e, R) == ApplySteps(e, TraceOf(e), R)

(* ---------------- TracedRays ---------------- *)
NaNRow == [x |-> NaN, y |-> NaN, tan_theta |-> NaN]

Max(S) == CHOOSE m \in S : \A k \in S : k <= m

pad_before(arr, new_rows) == [i \in 1..new_rows |-> NaNRow] \o arr

pad_after(arr, new_rows) == arr \o [i \in 1..new_rows |-> NaNRow]

(* the table indexed [ray][stage] of (x, y, tan_theta) *)
complete_array(R) ==
    LET S == Len(R.arrays)
        rows == Max({Len(R.heap[R.arrays[k]]) : k \in 1..S})
        padded == [k \in 1..S |->
                     pad_after(copy3(R.heap[R.arrays[k]]), rows - Len(R.heap[R.arrays[k]]))]
    IN [i \in 1..rows |-> [k \in 1..S |-> padded[k][i]]]

properties_array(R) ==
    [i \in 1..n(R) |-> [group |-> array(R)[i].group, wavelength |-> array(R)[i].wavelength]]

TracedRays_from_rays(R) ==
    [call |-> "traced_rays", array |-> complete_array(R),
     stages |-> Len(R.arrays),
     properties_array |-> properties_array(R)]

(* ---------------- ray_crossings ---------------- *)
(* np.triu_indices(m, 1): the pairs i < j in row-major order *)
RECURSIVE triu_indices(_, _, _)
triu_indices(m, i, j) ==
    IF i >= m THEN <<>>
    ELSE IF j > m THEN triu_indices(m, i + 1, i + 2)
    ELSE <<<<i, j>>>> \o triu_indices(m, i, j + 1)

(* indices of the rows selected by a mask *)
RECURSIVE Where(_, _)
Where(mask, i) ==
    IF i > Len(mask) THEN <<>>
    ELSE (IF mask[i] THEN <<i>> ELSE <<>>) \o Where(mask, i + 1)

InUnitClosed(num, den) ==
    IF IsNaN(num) \/ IsNaN(den) \/ den = 0 THEN FALSE
    ELSE IF den > 0 THEN 0 <= num /\ num <= den
    ELSE den <= num /\ num <= 0

(* l < 1 and l > 0 for the quotient l = num / den of doubles: false for *)
(* a NaN operand and for den = 0 (l is then infinite or NaN)            *)
InUnit(num, den) ==
    IF IsNaN(num) \/ IsNaN(den) \/ den = 0 THEN FALSE
    ELSE IF den > 0 THEN 0 < num /\ num < den
    ELSE den < num /\ num < 0

(* one pair in one interval: start points r0, r1 and end points q0, q1 *)
crossing(r0, q0, r1, q1) ==
    LET v0x == Sub(q0.x, r0.x)
        v0y == Sub(q0.y, r0.y)
        v1x == Sub(q1.x, r1.x)
        v1y == Sub(q1.y, r1.y)
        px == Sub(r1.x, r0.x)
        py == Sub(r1.y, r0.y)
        num == Sub(Mul(v1x, py), Mul(v1y, px))
        den == Sub(Mul(v0y, v1x), Mul(v0x, v1y))
        I == InUnit(num, den)
    IN [valid |-> I,
        num |-> IF I THEN num ELSE NaN,
        den |-> IF I THEN den ELSE NaN]

(* element is the stage index, counted from 0, or None *)
None == 0 - 1

TracedRays_ray_crossings(tr, element) ==
    LET rows == Len(tr.array)
        S == tr.stages
        i_valid == [i \in 1..rows |->
                      IF element = None THEN TRUE
                      ELSE ~IsNaN(tr.array[i][element + 1].x)
                           \/ ~IsNaN(tr.array[i][element + 1].y)]
        sel == Where(i_valid, 1)
        i_triu == triu_indices(Len(sel), 1, 2)
    IN [call |-> "ray_crossings",
        element |-> element,
        rays |-> sel,
        pairs |-> [q \in 1..Len(i_triu) |-> <<sel[i_triu[q][1]], sel[i_triu[q][2]]>>],
        crossings |-> [q \in 1..Len(i_triu) |-> [k \in 1..(S - 1) |->
                         crossing(tr.array[sel[i_triu[q][1]]][k], tr.array[sel[i_triu[q][1]]][k + 1],
                                  tr.array[sel[i_triu[q][2]]][k], tr.array[sel[i_triu[q][2]]][k + 1])]],
        properties_from |-> [q \in 1..Len(i_triu) |-> tr.properties_array[sel[i_triu[q][1]]]],
        properties_to |-> [q \in 1..Len(i_triu) |-> tr.properties_array[sel[i_triu[q][2]]]]]

Rays_ray_crossings(R, element) == TracedRays_ray_crossings(TracedRays_from_rays(R), element)

(* ---------------- initial batches: Rays(array) ---------------- *)
(* Rays(array) accepts any table.  The model draws its rows from three   *)
(* rays that start on the axis: RayA rises from (0,0) with slope 1 and   *)
(* is tagged 532 nm; RayB falls from (1,0) with slope -1 and RayC runs   *)
(* along the axis from (0,0), both without wavelength.  forward is the   *)
(* constructor default 1.0.                                              *)
RayA == [x |-> 0, y |-> 0, tan_theta |-> 1, forward |-> 2, group |-> 1, wavelength |-> 532]

RayB == [x |-> 1, y |-> 0, tan_theta |-> 0 - 1, forward |-> 2, group |-> 2, wavelength |-> NaN]

RayC == [x |-> 0, y |-> 0, tan_theta |-> 0, forward |-> 2, group |-> 2, wavelength |-> NaN]

InitRow == {RayA, RayB, RayC}

(* the batches over a set of rows: up to MaxRays different rays in any *)
(* order                                                               *)
Batches(rows) ==
    {a \in UNION {[1..k -> rows] : k \in 1..MaxRays} :
        \A i, j \in 1..Len(a) : a[i] = a[j] => i = j}

Targets == {0, 2}

(* ---------------- the elements of the scene ---------------- *)
DefaultWavelengths == <<532, 650>>

Catalog ==
    <<Aperture(2, <<2, 0>>, 0),
      Mirror(4, <<2, 0>>, 0),
      Lens(1, 4, <<2, 0>>, 0),
      ParabolicMirror(1, 4, <<2, 0>>, 0),
      DiffractionGrating(1, 4, <<2, 0>>, 0, 0, DefaultWavelengths),
      DiffractionPrism(0, "BK7", <<0, 0>>, 0, DefaultWavelengths),
      Sensor(2, <<2, 0>>, 180)>>

Elements == 1..Len(Catalog)

(* the element lists of the optical paths: every single element, an     *)
(* aperture in front of the grating and a lens in front of the sensor    *)
Paths == {<<k>> : k \in Elements} \cup {<<1, 5>>, <<3, 7>>}

NoCall == [call |-> "new", arg |-> 0]

(* ret is the table a query is returning; the batch is as the query saw it *)
NoReturn == [call |-> "none"]

(* pc is the number of calls of the running Element.trace that have     *)
(* returned (0: no trace is running), cur the element being traced and  *)
(* ops the number of calls made on the batch so far.                    *)
Init ==
    /\ \E a \in Batches(InitRow) : heap = <<a>>
    /\ arrays = <<1>>
    /\ last = NoCall
    /\ pc = 0
    /\ cur = 0
    /\ ops = 0
    /\ ret = NoReturn
    /\ elements = <<>>

(* ---------------- OpticalPath ---------------- *)
OpticalPath_propagate(R, X) == store(propagate(R, X))

RECURSIVE trace_elements(_, _)
trace_elements(path, T) ==
    IF path = <<>> \/ ~T.ok THEN T
    ELSE LET U == trace(Catalog[path[1]], T.rays)
         IN trace_elements(Tail(path), [ok |-> U.ok, rays |-> store(U.rays)])

OpticalPath_trace(path, R) == trace_elements(path, [ok |-> TRUE, rays |-> store(R)])

(* ---------------- actions ---------------- *)
Now == Rays(arrays, heap)

Commit(R, call, arg) ==
    /\ arrays' = R.arrays
    /\ heap' = R.heap
    /\ last' = [call |-> call, arg |-> arg]
    /\ ret' = NoReturn
    /\ UNCHANGED elements

Call ==
    /\ pc = 0
    /\ ret = NoReturn
    /\ ops < MaxOps
    /\ ops' = ops + 1

Propagate == \E X \in Targets :
    /\ Call
    /\ Commit(propagate(Now, X), "propagate", X)
    /\ UNCHANGED <<pc, cur>>

Store ==
    /\ Call
    /\ Commit(store(Now), "store", 0)
    /\ UNCHANGED <<pc, cur>>

PathPropagate == \E X \in Targets :
    /\ Call
    /\ Commit(OpticalPath_propagate(Now, X), "OpticalPath.propagate", X)
    /\ UNCHANGED <<pc, cur>>

PathTrace == \E path \in Paths :
    /\ Call
    /\ LET T == OpticalPath_trace(path, Now)
       IN /\ T.ok
          /\ Commit(T.rays, "OpticalPath.trace", path)
    /\ UNCHANGED <<pc, cur>>

(* the next call of Element.trace(rays) returns; the first one enters it *)
TraceStep(k, i) ==
    LET e == Catalog[k]
        step == TraceOf(e)[i]
    IN /\ ExactStep(e, step, Now)
       /\ Commit(ApplyStep(e, step, Now), step, k)
       /\ pc' = IF i = Len(TraceOf(e)) THEN 0 ELSE i
       /\ cur' = IF i = Len(TraceOf(e)) THEN 0 ELSE k

TraceCall == \E k \in Elements :
    /\ Call
    /\ TraceStep(k, 1)

TraceNext ==
    /\ pc > 0
    /\ TraceStep(cur, pc + 1)
    /\ UNCHANGED ops

(* a query returns its table; the caller takes it before its next call *)
Query(value) ==
    /\ pc = 0
    /\ ret = NoReturn
    /\ ret' = value
    /\ UNCHANGED <<arrays, heap, last, pc, cur, ops, elements>>

TracedRaysCall == Query(TracedRays_from_rays(Now))

(* the crossings of all rays, or of the rays that reach the last stage *)
RayCrossingsCall == \E element \in {None, Len(arrays) - 1} :
    /\ Len(arrays) >= 2
    /\ Query(Rays_ray_crossings(Now, element))

Return ==
    /\ ret # NoReturn
    /\ ret' = NoReturn
    /\ UNCHANGED <<arrays, heap, last, pc, cur, ops, elements>>

Next ==
    \/ TracedRaysCall
    \/ RayCrossingsCall
    \/ Return
    \/ Propagate
    \/ Store
    \/ PathPropagate
    \/ PathTrace
    \/ TraceCall
    \/ TraceNext

Spec == Init /\ [][Next]_vars


(***************************************************************************)
(* The crossing detector and its filters on a traced table.  The table is  *)
(* TracedRays(array, properties_array); `ret` is the object the caller     *)
(* holds: the traced table, then the crossings, then a filtered set.       *)
(***************************************************************************)
(* == and != of doubles: a NaN operand is equal to nothing *)
Eq(a, b) == ~IsNaN(a) /\ ~IsNaN(b) /\ a = b

Ne(a, b) == ~Eq(a, b)

(* RayCrossings.__getitem__ with a boolean mask over the pairs *)
RayCrossings_getitem(rc, mask, call) ==
    LET sel == Where(mask, 1)
    IN [call |-> call,
        element |-> rc.element,
        rays |-> rc.rays,
        pairs |-> [q \in 1..Len(sel) |-> rc.pairs[sel[q]]],
        crossings |-> [q \in 1..Len(sel) |-> rc.crossings[sel[q]]],
        properties_from |-> [q \in 1..Len(sel) |-> rc.properties_from[sel[q]]],
        properties_to |-> [q \in 1..Len(sel) |-> rc.properties_to[sel[q]]]]

(* RayCrossings.__getitem__((ix, iy)) with the slices ix = ::step over    *)
(* the pairs and iy = lo:hi over the intervals                           *)
RayCrossings_getitem_unaligned(rc, step, lo, hi) ==
    LET sel == [q \in 1..((Len(rc.pairs) + step - 1) \div step) |-> (q - 1) * step + 1]
    IN [call |-> "getitem",
        item |-> <<step, lo, hi>>,
        element |-> rc.element,
        rays |-> rc.rays,
        pairs |-> [q \in 1..Len(sel) |-> rc.pairs[sel[q]]],
        crossings |-> [q \in 1..Len(sel) |->
                         [k \in 1..(hi - lo) |-> rc.crossings[sel[q]][lo + k]]],
        properties_from |-> [q \in 1..Len(sel) |-> rc.properties_from[q]],
        properties_to |-> [q \in 1..Len(sel) |-> rc.properties_to[sel[q]]]]

RayCrossings_getitem_slices(rc, step, lo, hi) ==
    LET sel == [q \in 1..((Len(rc.pairs) + step - 1) \div step) |-> (q - 1) * step + 1]
    IN [call |-> "getitem",
        item |-> <<step, lo, hi>>,
        element |-> rc.element,
        rays |-> rc.rays,
        pairs |-> [q \in 1..Len(sel) |-> rc.pairs[sel[q]]],
        crossings |-> [q \in 1..Len(sel) |->
                         [k \in 1..(hi - lo) |-> rc.crossings[sel[q]][lo + k]]],
        properties_from |-> [q \in 1..Len(sel) |-> rc.properties_from[sel[q]]],
        properties_to |-> [q \in 1..Len(sel) |-> rc.properties_to[sel[q]]]]

(* np.unique(properties_from, axis=0): the distinct (group, wavelength) rows *)
unique(properties) == {properties[q] : q \in 1..Len(properties)}

image_crossings(rc) ==
    LET i == [q \in 1..Len(rc.pairs) |->
                \E u \in unique(rc.properties_from) :
                    /\ Eq(rc.properties_from[q].wavelength, u.wavelength)
                    /\ Eq(rc.properties_to[q].wavelength, u.wavelength)
                    /\ Eq(rc.properties_from[q].group, u.group)
                    /\ Eq(rc.properties_to[q].group, u.group)]
    IN RayCrossings_getitem(rc, i, "image_crossings")

color_crossings(rc) ==
    LET i == [q \in 1..Len(rc.pairs) |->
                \E u \in unique(rc.properties_from) :
                    /\ Eq(rc.properties_from[q].wavelength, u.wavelength)
                    /\ Eq(rc.properties_to[q].wavelength, u.wavelength)
                    /\ Eq(rc.properties_from[q].group, u.group)
                    /\ Ne(rc.properties_to[q].group, u.group)]
    IN RayCrossings_getitem(rc, i, "color_crossings")

(* The rows of the traced tables: a ray stored at x = 0 and again after  *)
(* propagate to x = 2 and to x = 4.  Two rays run parallel to the axis,  *)
(* one rises from the start point of the first and one falls onto its    *)
(* point at x = 2; the last two meet each other and the second ray       *)
(* half-way.                                                             *)
Track(y, t) ==
    <<[x |-> 0, y |-> y, tan_theta |-> t], [x |-> 2, y |-> y + 2 * t, tan_theta |-> t],
      [x |-> 4, y |-> y + 4 * t, tan_theta |-> t]>>

Tracks == {Track(0, 0), Track(1, 0), Track(0, 1), Track(2, 0 - 1)}

(* (group, wavelength) of a ray: untagged, or tagged by a dispersive element *)
Tags == {[group |-> 1, wavelength |-> NaN], [group |-> 1, wavelength |-> 532],
         [group |-> 1, wavelength |-> 650], [group |-> 2, wavelength |-> 532]}

(* TracedRays(array, properties_array) of three stages *)
TracedRays(a, t) ==
    [call |-> "traced_rays", array |-> a, stages |-> 3, properties_array |-> t]

(* the tables of the model: any rays of one tag, or any tags on rays    *)
(* that cross each other                                                *)
TracedTables ==
    UNION {{TracedRays(a, [i \in 1..m |-> [group |-> 1, wavelength |-> 532]]) :
              a \in [1..m -> Tracks]}
           \cup {TracedRays([i \in 1..m |->
                                <<Track(0, 1), Track(2, 0 - 1), Track(1, 0),
                                  Track(0, 0)>>[((i - 1) % 4) + 1]], t) :
                    t \in [1..m -> Tags]} :
           m \in 2..(MaxRays + 1)}

InitCrossings ==
    /\ ret \in TracedTables
    /\ arrays = <<>>
    /\ heap = <<>>
    /\ last = NoCall
    /\ pc = 0
    /\ cur = 0
    /\ ops = 0
    /\ elements = <<>>

(* last.arg is the object the call was made on *)
Held(value, call) ==
    /\ ret' = value
    /\ last' = [call |-> call, arg |-> ret]
    /\ UNCHANGED <<arrays, heap, pc, cur, ops, elements>>

CrossingsCall == \E element \in {None, 1} :
    /\ ret.call = "traced_rays"
    /\ Held(TracedRays_ray_crossings(ret, element), "ray_crossings")

ImageCrossingsCall ==
    /\ ret.call = "ray_crossings"
    /\ Held(image_crossings(ret), "image_crossings")

ColorCrossingsCall ==
    /\ ret.call = "ray_crossings"
    /\ Held(color_crossings(ret), "color_crossings")

(* crossings[::step, lo:hi] with the slice inside the table *)
GetItemCall == \E step \in {1, 2} : \E lo \in {0, 1} : \E hi \in {1, 2} :
    /\ ret.call = "ray_crossings"
    /\ lo <= hi
    /\ Held(RayCrossings_getitem_slices(ret, step, lo, hi), "getitem")

SpecCrossings ==
    InitCrossings
    /\ [][CrossingsCall \/ ImageCrossingsCall \/ ColorCrossingsCall \/ GetItemCall]_vars


(***************************************************************************)
(* The frame transforms of a RotateObject applied to a batch, for          *)
(* rotations of any sign and size.  `elements` holds the object, `ret` the *)
(* copy of the batch (rays.copy()) that the caller took before the first   *)
(* call, and last.arg names the call made before.                          *)
(***************************************************************************)
RotateObject(origin, theta) == Element(0, origin, theta)

(* Rays(array) with a forward column: a ray that travels backwards, a   *)
(* blocked ray, whose direction is unset, and an invalidated ray, whose *)
(* height is unset; the element is rotated by whole half turns,         *)
(* negative ones and full turns and more                                *)
InitFrame ==
    /\ \E a \in Batches(InitRow \cup {[RayA EXCEPT !.forward = 0 - 2],
                                     [RayC EXCEPT !.tan_theta = NaN],
                                     [RayB EXCEPT !.y = NaN]}) :
          /\ heap = <<a>>
          /\ ret = [call |-> "copy", array |-> a]
    /\ arrays = <<1>>
    /\ last = NoCall
    /\ pc = 0
    /\ cur = 0
    /\ ops = 0
    /\ \E origin \in {<<0, 0>>, <<2, 1>>} : \E theta \in {0 - 360, 0 - 180, 0, 180, 360, 540} :
          elements = <<RotateObject(origin, theta)>>

FrameCall(R, call) ==
    /\ ops < MaxOps
    /\ ops' = ops + 1
    /\ arrays' = R.arrays
    /\ heap' = R.heap
    /\ last' = [call |-> call, arg |-> last.call]
    /\ UNCHANGED <<pc, cur, ret, elements>>

ToElementFrame ==
    FrameCall(to_element_frame_of_reference(elements[1], Now), "to_element_frame_of_reference")

ToGlobalFrame ==
    FrameCall(to_global_frame_of_reference(elements[1], Now), "to_global_frame_of_reference")

SpecFrame == InitFrame /\ [][ToElementFrame \/ ToGlobalFrame]_vars


(***************************************************************************)
(* An OpticalPath: its list `elements` and its rays.  Every append         *)
(* constructs the element it appends.                                      *)
(***************************************************************************)
(* the reference element keeps its identity: offset is its origin array, *)
(* and offset += diff writes into it                                     *)
place_relative_to_unrotated(reference_element, element, distance, theta) ==
    LET diff == <<distance, 0>>
        origin == IF theta # 0 THEN Rotate(theta, element.origin[1], element.origin[2])
                  ELSE element.origin
        offset == <<Add(reference_element.origin[1], diff[1]),
                    Add(reference_element.origin[2], diff[2])>>
    IN [reference_element |-> [reference_element EXCEPT !.origin = offset],
        element |-> [element EXCEPT
                        !.origin = <<Add(origin[1], offset[1]), Add(origin[2], offset[2])>>,
                        !.theta = element.theta + theta]]

place_relative_to(reference_element, element, distance, theta) ==
    LET diff == IF theta # 0 THEN Rotate(theta, distance, 0) ELSE <<distance, 0>>
        origin == IF theta # 0 THEN Rotate(theta, element.origin[1], element.origin[2])
                  ELSE element.origin
        offset == <<Add(reference_element.origin[1], diff[1]),
                    Add(reference_element.origin[2], diff[2])>>
    IN [reference_element |-> [reference_element EXCEPT !.origin = offset],
        element |-> [element EXCEPT
                        !.origin = <<Add(origin[1], offset[1]), Add(origin[2], offset[2])>>,
                        !.theta = element.theta + theta]]

OpticalPath_append(es, element, distance, theta) ==
    IF distance = 0 /\ theta = 0 THEN Append(es, element)
    ELSE LET placed == place_relative_to(es[Len(es)], element, distance, theta)
         IN Append([es EXCEPT ![Len(es)] = placed.reference_element], placed.element)

(* append_grouped places every new element relative to ref_element, the *)
(* element that was last when the call was made (its index in the list) *)
RECURSIVE OpticalPath_append_grouped(_, _, _, _, _)
OpticalPath_append_grouped(es, ref_element, new, distance, theta) ==
    IF new = <<>> THEN es
    ELSE IF distance = 0 /\ theta = 0
         THEN OpticalPath_append_grouped(Append(es, new[1]), ref_element, Tail(new),
                                         distance, theta)
         ELSE LET placed == place_relative_to(es[ref_element], new[1], distance, theta)
              IN OpticalPath_append_grouped(
                     Append([es EXCEPT ![ref_element] = placed.reference_element],
                            placed.element),
                     ref_element, Tail(new), distance, theta)

RECURSIVE trace_list(_, _)
trace_list(es, T) ==
    IF es = <<>> \/ ~T.ok THEN T
    ELSE LET U == trace(es[1], T.rays)
         IN trace_list(Tail(es), [ok |-> U.ok, rays |-> store(U.rays)])

OpticalPath_trace_elements(es, R) == trace_list(es, [ok |-> TRUE, rays |-> store(R)])

(* the displacements a caller of append asks for *)
Distances == {0, 2}

Angles == {0, 90, 180}

(* elements[-1] of an empty list raises IndexError: the call fails *)
PathAppend == \E k \in {1, 2} : \E distance \in Distances : \E theta \in Angles :
    /\ Call
    /\ (distance = 0 /\ theta = 0) \/ Len(elements) > 0
    /\ elements' = OpticalPath_append(elements, Catalog[k], distance, theta)
    /\ last' = [call |-> "OpticalPath.append",
                arg |-> [element |-> Catalog[k], distance |-> distance, theta |-> theta]]
    /\ UNCHANGED <<arrays, heap, pc, cur, ret>>

PathTraceElements ==
    /\ Call
    /\ LET T == OpticalPath_trace_elements(elements, Now)
       IN /\ T.ok
          /\ Commit(T.rays, "OpticalPath.trace", 0)
    /\ UNCHANGED <<pc, cur>>

(* two elements appended as one group *)
PathAppendGrouped == \E distance \in Distances : \E theta \in Angles :
    /\ Call
    /\ Len(elements) > 0
    /\ elements' = OpticalPath_append_grouped(elements, Len(elements),
                                              <<Catalog[1], Catalog[3]>>, distance, theta)
    /\ last' = [call |-> "OpticalPath.append_grouped",
                arg |-> [element |-> Catalog[1], distance |-> distance, theta |-> theta]]
    /\ UNCHANGED <<arrays, heap, pc, cur, ret>>

(* OpticalPath.plot traces the path, then draws the elements and the    *)
(* rays; the drawing reads origin, theta and aperture of the elements   *)
PathPlot ==
    /\ Call
    /\ LET T == OpticalPath_trace_elements(elements, Now)
       IN /\ T.ok
          /\ Commit(T.rays, "OpticalPath.plot", 0)
    /\ UNCHANGED <<pc, cur>>

(* TracedRays.plot writes 0 over the unset wavelengths and groups of    *)
(* the table it draws                                                   *)
TracedRays_plot(tr) ==
    [tr EXCEPT !.call = "plot",
               !.properties_array =
                   [i \in 1..Len(@) |->
                       [group |-> IF IsNaN(@[i].group) THEN 0 ELSE @[i].group,
                        wavelength |-> IF IsNaN(@[i].wavelength) THEN 0
                                       ELSE @[i].wavelength]]]

(* Rays.plot draws the table of traced_rays() *)
RaysPlot == Query(TracedRays_plot(TracedRays_from_rays(Now)))

SpecPath ==
    Init
    /\ [][\/ PathAppend
         \/ PathAppendGrouped
         \/ PathPropagate
         \/ PathTraceElements
         \/ PathPlot
         \/ RaysPlot
         \/ Return]_vars


(***************************************************************************)
(* Construction of the elements with its checks, and the first trace of    *)
(* the element constructed.  `ret` is what the constructor call gave: the  *)
(* element, or the exception it raised.                                    *)
(***************************************************************************)
(* float('+Inf'), the default blocker_diameter: above every diameter *)
Inf == 2000000

Ge(a, b) == ~IsNaN(a) /\ ~IsNaN(b) /\ a >= b

(* the two assert statements of Aperture.__init__ *)
Aperture_asserts_ge(diameter, blocker_diameter) ==
    Ge(diameter, 0) /\ Ge(blocker_diameter, diameter)

Aperture_asserts(diameter, blocker_diameter) ==
    Ge(diameter, 0) /\ Gt(blocker_diameter, diameter)

(* the keys of DiffractionPrism.constants *)
constants == {"BK7"}

Glasses == {"BK7", "SF11"}

NoElement == [kind |-> "none"]

Raised(error) == [call |-> "construct", raised |-> error, element |-> NoElement]

Constructed(e) == [call |-> "construct", raised |-> "none", element |-> e]

(* kind(...) with origin and theta at their defaults; every constructor *)
(* reaches Aperture.__init__ first, Lens.__init__ then divides by f     *)
Construct(a) ==
    IF ~Aperture_asserts(a.diameter, a.blocker_diameter) THEN Raised("AssertionError")
    ELSE IF a.kind \in {"Lens", "ParabolicMirror"} /\ a.focal_length = 0
         THEN Raised("ZeroDivisionError")
    ELSE Constructed(
        CASE a.kind = "Aperture" -> Aperture(a.diameter, <<0, 0>>, 0)
          [] a.kind = "Mirror" -> Mirror(a.diameter, <<0, 0>>, 0)
          [] a.kind = "Lens" -> Lens(a.focal_length, a.diameter, <<0, 0>>, 0)
          [] a.kind = "ParabolicMirror" -> ParabolicMirror(a.focal_length, a.diameter, <<0, 0>>, 0)
          [] a.kind = "DiffractionGrating" ->
                 DiffractionGrating(1, a.diameter, <<0, 0>>, 0, 0, DefaultWavelengths)
          [] a.kind = "DiffractionPrism" ->
                 DiffractionPrism(a.diameter, a.glass, <<0, 0>>, 0, DefaultWavelengths)
          [] a.kind = "Sensor" -> Sensor(a.diameter, <<0, 0>>, 0))

(* the arguments of the constructor calls; focal_length and glass are   *)
(* arguments of the kinds that take them                                *)
ConstructorArgs ==
    {a \in [kind : {"Aperture", "Mirror", "Lens", "ParabolicMirror", "DiffractionGrating",
                    "DiffractionPrism", "Sensor"},
            focal_length : {0, 1}, diameter : {0 - 1, 0, 2},
            blocker_diameter : {0, 2, 4, Inf}, glass : Glasses] :
        /\ a.kind \notin {"Lens", "ParabolicMirror"} => a.focal_length = 1
        /\ a.kind # "DiffractionPrism" => a.glass = "BK7"}

(* refractive_index looks the glass up in constants: KeyError for a     *)
(* glass without entry.  It is first called by transform_rays, after    *)
(* the rays were taken to the element frame, propagated, intersected    *)
(* and had their wavelengths resolved.                                  *)
refractive_index_raises(e) == e.kind = "DiffractionPrism" /\ e.glass \notin constants

trace_until_refractive_index(e, R) ==
    split_wavelengths(e,
        intersection_with(e, propagate(to_element_frame_of_reference(e, R), 0)))

ConstructCall == \E a \in ConstructorArgs :
    /\ last = NoCall
    /\ ret' = Construct(a)
    /\ last' = [call |-> "construct", arg |-> a]
    /\ UNCHANGED <<arrays, heap, pc, cur, ops, elements>>

(* element.trace(rays) of the element constructed *)
TraceConstructed ==
    /\ last.call = "construct"
    /\ ret.raised = "none"
    /\ last' = [call |-> "Element.trace", arg |-> last.arg]
    /\ IF refractive_index_raises(ret.element)
       THEN /\ ret' = [ret EXCEPT !.call = "Element.trace", !.raised = "KeyError"]
            /\ arrays' = trace_until_refractive_index(ret.element, Now).arrays
            /\ heap' = trace_until_refractive_index(ret.element, Now).heap
       ELSE /\ trace(ret.element, Now).ok
            /\ ret' = [ret EXCEPT !.call = "Element.trace"]
            /\ arrays' = trace(ret.element, Now).rays.arrays
            /\ heap' = trace(ret.element, Now).rays.heap
    /\ UNCHANGED <<pc, cur, ops, elements>>

SpecCtor == Init /\ [][ConstructCall \/ TraceConstructed]_vars


(***************************************************************************)
(* Two flat mirrors that face each other across the start of the rays,     *)
(* and free-space steps to either side of them.  last.arg is the mirror    *)
(* or the target of the call, with the number of Mirror.trace calls made.  *)
(***************************************************************************)
Mirrors == <<Mirror(4, <<2, 0>>, 0), Mirror(8, <<0, 0>>, 0)>>

Reflections == IF last = NoCall THEN 0 ELSE last.arg[2]

MirrorTrace == \E k \in 1..Len(Mirrors) :
    /\ ops < MaxOps + 1
    /\ ops' = ops + 1
    /\ trace(Mirrors[k], Now).ok
    /\ Commit(trace(Mirrors[k], Now).rays, "Mirror.trace", <<k, Reflections + 1>>)
    /\ UNCHANGED <<pc, cur>>

PropagateTo == \E X \in {0 - 1, 1, 3} :
    /\ ops < MaxOps + 1
    /\ ops' = ops + 1
    /\ Commit(propagate(Now, X), "propagate", <<X, Reflections>>)
    /\ UNCHANGED <<pc, cur>>

SpecMirror == Init /\ [][MirrorTrace \/ PropagateTo]_vars


(***************************************************************************)
(* ParabolicMirror.intersection_with on batches in the element frame: the  *)
(* rays stand at x = 0, where propagate has put them.                      *)
(***************************************************************************)
Parabolas == <<ParabolicMirror(1, 4, <<0, 0>>, 0), ParabolicMirror(4, 8, <<0, 0>>, 0)>>

(* rays parallel to the axis at heights inside, on and outside the rim, *)
(* oblique rays and a blocked ray                                       *)
InitParabola ==
    /\ \E a \in Batches({[RayC EXCEPT !.y = y] : y \in {0 - 4, 0 - 2, 0, 2, 4}}
                         \cup {[RayC EXCEPT !.tan_theta = 1],
                               [RayC EXCEPT !.y = 0 - 3, !.tan_theta = 1],
                               [RayC EXCEPT !.y = 3, !.tan_theta = 0 - 1],
                               [RayC EXCEPT !.tan_theta = NaN]}) : heap = <<a>>
    /\ arrays = <<1>>
    /\ last = NoCall
    /\ pc = 0
    /\ cur = 0
    /\ ops = 0
    /\ ret = NoReturn
    /\ elements = <<>>

IntersectionWith == \E k \in 1..Len(Parabolas) :
    /\ last = NoCall
    /\ \A i \in 1..n(Now) : ExactParabola(Parabolas[k], array(Now)[i])
    /\ Commit(ParabolicMirror_intersection_with(Parabolas[k], Now),
              "ParabolicMirror.intersection_with", k)
    /\ UNCHANGED <<pc, cur, ops>>

SpecParabola == InitParabola /\ [][IntersectionWith]_vars


(***************************************************************************)
(* Element.transform_rays of the flat mirror and of thin lenses, on        *)
(* batches in the element frame.                                           *)
(***************************************************************************)
Optics ==
    <<Mirror(8, <<0, 0>>, 0), Lens(1, 8, <<0, 0>>, 0), Lens(2, 8, <<0, 0>>, 0),
      Lens(0 - 2, 8, <<0, 0>>, 0)>>

TransformRays == \E k \in 1..Len(Optics) :
    /\ last = NoCall
    /\ \A i \in 1..n(Now) : ExactMatrix(Optics[k], array(Now)[i])
    /\ Commit(Element_transform_rays(Optics[k], Now), "Element.transform_rays", k)
    /\ UNCHANGED <<pc, cur, ops>>

SpecTransform == InitParabola /\ [][TransformRays]_vars


(***************************************************************************)
(* Batches made by point_source_rays, the rays of an OpticalPath without   *)
(* object, between the two mirrors.                                        *)
(***************************************************************************)
(* the fan of n rays from `origin` with emission angles from angle[1] to *)
(* angle[2]; forward is written as 1.0 or 0.0                            *)
point_source_rays(origin, angle, nrays, group) ==
    LET da == (angle[2] - angle[1]) \div (nrays - 1)
    IN [i \in 1..nrays |->
          LET a == angle[1] + (i - 1) * da
          IN [x |-> origin[1], y |-> origin[2], tan_theta |-> TanDeg(a),
              forward |-> IF Mod360(a) < 90 \/ Mod360(a) > 270 THEN 2 ELSE 0,
              group |-> group, wavelength |-> NaN]]

(* the fans whose angles have integer tangents: steps of 45 degrees or  *)
(* of half turns                                                        *)
InitSource ==
    /\ \E origin \in {<<0, 0>>, <<1, 0>>} :
       \E angle \in {<<0 - 45, 45>>, <<135, 225>>, <<0, 180>>, <<0 - 180, 180>>} :
       \E nrays \in 2..(MaxRays + 1) :
          /\ (angle[2] - angle[1]) % (nrays - 1) = 0
          /\ \A i \in 0..(nrays - 1) :
                LET a == angle[1] + i * ((angle[2] - angle[1]) \div (nrays - 1))
                IN a % 45 = 0 /\ a % 180 # 90
          /\ heap = <<point_source_rays(origin, angle, nrays, 1)>>
    /\ arrays = <<1>>
    /\ last = NoCall
    /\ pc = 0
    /\ cur = 0
    /\ ops = 0
    /\ ret = NoReturn
    /\ elements = <<>>

SpecSource == InitSource /\ [][MirrorTrace \/ PropagateTo]_vars



(***************************************************************************)
(* The grating equation.  The heading of a ray is kept here by its sine    *)
(* in thousandths, sin(arctan(tan_theta)) * 1000, which names tan_theta    *)
(* one to one (0 for tan_theta = 0, 707 and -707 for tan_theta = 1 and     *)
(* -1); `ret` is the batch the caller holds.  Every ray carries a          *)
(* wavelength, so that transform_rays splits none.                         *)
(***************************************************************************)
(* the sine of the heading that transform_rays writes: np.sin of the      *)
(* sine of the incident heading, less interference * wavelength /         *)
(* grating / 1000; np.arcsin is unset outside [-1, 1].  np.sin(0.707) is   *)
(* 0.650.                                                                  *)
DiffractionGrating_sin_theta(e, sin_theta, wavelength) ==
    LET sin == CASE sin_theta = 707 -> 650
                 [] sin_theta = 0 - 707 -> 0 - 650
                 [] OTHER -> sin_theta
        a == Sub(sin, (e.interference * wavelength) \div e.grating)
    IN IF IsNaN(a) \/ Abs(a) > 1000 THEN NaN ELSE a

(* diffraction_angle_for(wavelength, theta), theta in degrees: the angle  *)
(* arcsin(sin / 1000) in degrees plus theta                               *)
diffraction_angle_for(e, wavelength, theta) ==
    LET sin == CASE theta = 45 -> 0 - 707
                 [] theta = 0 - 45 -> 707
                 [] OTHER -> 0
        a == sin - (e.interference * wavelength) \div e.grating
    IN [sin |-> IF Abs(a) > 1000 THEN NaN ELSE a, plus |-> theta]

GratingTransform == \E interference \in {1, 0 - 1} :
    LET e == DiffractionGrating(1, 4, <<0, 0>>, 0, interference, DefaultWavelengths)
    IN /\ ret.call = "Rays"
       /\ Held([call |-> "DiffractionGrating.transform_rays",
                element |-> e,
                sin_theta |-> [i \in 1..Len(ret.sin_theta) |->
                                 DiffractionGrating_sin_theta(e, ret.sin_theta[i],
                                                              ret.wavelength[i])],
                wavelength |-> ret.wavelength],
               "DiffractionGrating.transform_rays")

SpecGrating ==
    /\ \E a \in Batches({[sin_theta |-> s, wavelength |-> w] :
                           s \in {0, 707, 0 - 707, NaN}, w \in {532, 300}}) :
          ret = [call |-> "Rays",
                 sin_theta |-> [i \in 1..Len(a) |-> a[i].sin_theta],
                 wavelength |-> [i \in 1..Len(a) |-> a[i].wavelength]]
    /\ arrays = <<>> /\ heap = <<>> /\ elements = <<>>
    /\ last = NoCall /\ pc = 0 /\ cur = 0 /\ ops = 0
    /\ [][GratingTransform]_vars


(***************************************************************************)
(* Properties                                                              *)
(***************************************************************************)
(* the live table before and after a step *)
Pre == array(Now)

Post == array(Rays(arrays', heap'))

(* the step is the call `c` returning (a query only touches ret) *)
Returned(c) == ret = NoReturn /\ ret' = NoReturn /\ last'.call = c

(* the element whose trace the step belongs to, 0 outside a trace *)
Running == IF cur' # 0 THEN cur' ELSE cur

(* the target of the propagate call that returned: 0 inside a trace *)
TargetX == IF pc' = 0 THEN last'.arg ELSE 0

PropagateReturned == Returned("propagate") \/ Returned("second.propagate")

(* ---------------- C1 ---------------- *)
C1_Order ==
    <<"to_element_frame_of_reference", "propagate", "intersection_with",
      "transform_rays", "block", "to_global_frame_of_reference">>

(* C1: one trace of an element that uses the base trace performs, in    *)
(* this order and each exactly once, to_element_frame_of_reference,      *)
(* propagate to x = 0, intersection_with, transform_rays, block and      *)
(* to_global_frame_of_reference: the j-th call that returns is the j-th  *)
(* of the list, the trace ends with the sixth and nothing else acts on   *)
(* the batch in between.                                                 *)
C1_TraceOrder ==
    [][/\ pc > 0 => pc' # pc
       /\ (pc' # pc /\ Catalog[Running].kind # "DiffractionPrism")
            => /\ last'.call = C1_Order[pc + 1]
               /\ last'.arg = Running
               /\ pc' = (pc + 1) % 6
               /\ cur' = (IF pc + 1 = 6 THEN 0 ELSE Running)]_vars

(* a Lens has been traced to the end *)
C1_Witness ==
    /\ pc = 0
    /\ last.call = "to_global_frame_of_reference"
    /\ Catalog[last.arg].kind = "Lens"

(* ---------------- C2 ---------------- *)
(* C2: propagate(batch, targetX) leaves y set for every valid ray (y and *)
(* tan_theta set) that is already at targetX, whatever its forward.      *)
C2_AtTargetKept ==
    [][PropagateReturned =>
         \A i \in 1..Len(Pre) :
             (Pre[i].x = TargetX /\ ~IsNaN(Pre[i].y) /\ ~IsNaN(Pre[i].tan_theta))
                 => ~IsNaN(Post[i].y)]_vars

(* ---------------- C3 ---------------- *)
(* the direction of travel disagrees with forward *)
C3_Disagrees(r, X) ==
    \/ Gt(X, r.x) /\ ~Gt(r.forward, 0)
    \/ Lt(X, r.x) /\ Gt(r.forward, 0)

(* C3: propagate(batch, targetX) sets every x to targetX and every y to  *)
(* y + tan_theta * (targetX - x), except that y is unset for exactly the *)
(* rays with dx # 0 whose direction of travel disagrees with forward.    *)
C3_PropagateExact ==
    [][PropagateReturned =>
         /\ Len(Post) = Len(Pre)
         /\ \A i \in 1..Len(Pre) :
               /\ Post[i].x = TargetX
               /\ Post[i].y = IF C3_Disagrees(Pre[i], TargetX) THEN NaN
                              ELSE Add(Pre[i].y, Mul(Pre[i].tan_theta, Sub(TargetX, Pre[i].x)))]_vars

(* ---------------- C4 ---------------- *)
BlockReturned == Returned("block") \/ Returned("second.block")

(* C4: Aperture.block invalidates (unsets the direction of) every ray    *)
(* with |y| > diameter / 2 and leaves every ray with |y| <= diameter / 2 *)
(* as it was in all six fields.                                          *)
C4_ApertureBlock ==
    [][(BlockReturned /\ Catalog[Running].kind # "Element") =>
         LET diameter == Catalog[Running].aperture
         IN /\ Len(Post) = Len(Pre)
            /\ \A i \in 1..Len(Pre) :
                  /\ Gt(2 * Abs(Pre[i].y), diameter) => IsNaN(Post[i].tan_theta)
                  /\ (~IsNaN(Pre[i].y) /\ 2 * Abs(Pre[i].y) <= diameter)
                        => Post[i] = Pre[i]]_vars

(* an aperture has blocked one ray and passed a ray on its very rim *)
C4_Witness ==
    /\ last.call = "block"
    /\ pc = 5
    /\ \E i, j \in 1..n(Now) :
          /\ 2 * Abs(array(Now)[i].y) = Catalog[cur].aperture
          /\ ~IsNaN(array(Now)[i].tan_theta)
          /\ Gt(2 * Abs(array(Now)[j].y), Catalog[cur].aperture)
          /\ IsNaN(array(Now)[j].tan_theta)

(* ---------------- C5 ---------------- *)
(* C5: no operation removes a row, and the row count grows only while a  *)
(* dispersive element transforms rows whose wavelength is unset (in its  *)
(* own trace or in the trace of a path that holds it).                   *)
C5_RowsRetained ==
    [][/\ Len(Post) >= Len(Pre)
       /\ Len(Post) > Len(Pre) =>
            /\ \E i \in 1..Len(Pre) : IsNaN(Pre[i].wavelength)
            /\ \/ Returned("transform_rays") /\ Dispersive(Catalog[Running])
               \/ /\ Returned("OpticalPath.trace")
                  /\ \E j \in 1..Len(last'.arg) : Dispersive(Catalog[last'.arg[j]])]_vars

(* a dispersive element has forked rays of a batch with a blocked ray *)
C5_Witness ==
    /\ n(Now) > MaxRays
    /\ \E i \in 1..n(Now) : IsNaN(array(Now)[i].tan_theta)

(* ---------------- C6 ---------------- *)
(* C6: the history list never loses or reorders entries and no step      *)
(* changes the content of an entry older than the live array; store()    *)
(* adds exactly one entry, the (x, y, tan_theta) copy of the live array, *)
(* in front of the live array, which stays the same unchanged object.    *)
C6_StoreHistory ==
    [][/\ Len(arrays') >= Len(arrays)
       /\ \A i \in 1..(Len(arrays) - 1) : heap'[arrays'[i]] = heap[arrays[i]]
       /\ Returned("store") =>
            /\ Len(arrays') = Len(arrays) + 1
            /\ arrays'[Len(arrays')] = arrays[Len(arrays)]
            /\ heap'[arrays'[Len(arrays')]] = Pre
            /\ arrays'[Len(arrays)] # arrays'[Len(arrays')]
            /\ heap'[arrays'[Len(arrays)]] = copy3(Pre)]_vars

(* after a store the live array has moved on and the snapshot has not *)
C6_Witness ==
    /\ Len(arrays) >= 2
    /\ last.call # "store"
    /\ heap[arrays[Len(arrays) - 1]] # copy3(array(Now))

(* ---------------- C7 ---------------- *)
(* C7: in the table of complete_array, entry (i, s) is row i of snapshot *)
(* s when the snapshot has that row and unset otherwise; the table has   *)
(* as many rows as the longest snapshot and a snapshot is never longer   *)
(* than a later one, so the padding stands for rays forked later.        *)
C7_RightPadded ==
    ret.call = "traced_rays" =>
        LET S == Len(arrays)
            snapshot(s) == copy3(heap[arrays[s]])
        IN /\ \A s \in 1..S : Len(snapshot(s)) <= Len(ret.array)
           /\ \E s \in 1..S : Len(snapshot(s)) = Len(ret.array)
           /\ \A s \in 1..(S - 1) : Len(snapshot(s)) <= Len(snapshot(s + 1))
           /\ \A i \in 1..Len(ret.array) : \A s \in 1..S :
                 ret.array[i][s] = IF i <= Len(snapshot(s)) THEN snapshot(s)[i] ELSE NaNRow

(* a table with a padded entry *)
C7_Witness ==
    /\ ret.call = "traced_rays"
    /\ \E s \in 1..Len(arrays) : Len(heap[arrays[s]]) < Len(ret.array)

(* ---------------- C8 ---------------- *)
SameRay(r, q) ==
    /\ r.x = q.x
    /\ r.y = q.y
    /\ r.forward = q.forward
    /\ r.group = q.group

TransformReturned == Returned("transform_rays") \/ Returned("second.transform_rays")

(* the rows of the table without wavelength, in row order *)
Unset(rows) == Where([i \in 1..Len(rows) |-> IsNaN(rows[i].wavelength)], 1)

C9_GroupStable ==
    [][LET N == Len(Pre)
           U == Unset(Pre)
           k == Len(U)
       IN /\ \A i \in 1..N : i <= Len(Post) => Post[i].group = Pre[i].group
          /\ \A i \in (N + 1)..Len(Post) :
                /\ k > 0
                /\ Post[i].group = Pre[U[((i - N - 1) % k) + 1]].group]_vars

(* a forked ray travels next to a ray of another group *)
C9_Witness ==
    \E i, j \in 1..n(Now) :
        /\ i > MaxRays
        /\ array(Now)[i].wavelength = 650
        /\ array(Now)[j].group # array(Now)[i].group

(* ---------------- C10 ---------------- *)
(* the line parameter of the second segment at the meeting point of the *)
(* lines through r0 -> q0 and r1 -> q1 lies strictly between 0 and 1    *)
C10_InsideSecond(r0, q0, r1, q1) ==
    LET v0x == Sub(q0.x, r0.x)
        v0y == Sub(q0.y, r0.y)
        v1x == Sub(q1.x, r1.x)
        v1y == Sub(q1.y, r1.y)
        px == Sub(r1.x, r0.x)
        py == Sub(r1.y, r0.y)
    IN InUnit(Sub(Mul(px, v0y), Mul(py, v0x)), Sub(Mul(v0x, v1y), Mul(v0y, v1x)))

(* C10: ray_crossings reports a crossing of a pair in a stage interval   *)
(* only if the meeting point lies strictly inside both segments.         *)
C10_InsideBoth ==
    ret.call = "ray_crossings" =>
        LET table == complete_array(Now)
        IN \A q \in 1..Len(ret.pairs) : \A k \in 1..(Len(arrays) - 1) :
              ret.crossings[q][k].valid =>
                  C10_InsideSecond(table[ret.pairs[q][1]][k], table[ret.pairs[q][1]][k + 1],
                                   table[ret.pairs[q][2]][k], table[ret.pairs[q][2]][k + 1])

(* ---------------- C11 ---------------- *)
(* the segments r0 -> q0 and r1 -> q1 are parallel *)
C11_Parallel(r0, q0, r1, q1) ==
    Sub(Mul(Sub(q0.x, r0.x), Sub(q1.y, r1.y)),
        Mul(Sub(q0.y, r0.y), Sub(q1.x, r1.x))) = 0

(* the point u lies on the line through r and q *)
C11_OnLine(u, r, q) ==
    Sub(Mul(Sub(u.x, r.x), Sub(q.y, r.y)), Mul(Sub(u.y, r.y), Sub(q.x, r.x))) = 0

(* the line parameter of the pair is 0 or 1: the start point or the end *)
(* point of the segment r0 -> q0 lies on the line through r1 and q1     *)
C11_AtEndpoint(r0, q0, r1, q1) ==
    C11_OnLine(r0, r1, q1) \/ C11_OnLine(q0, r1, q1)

Kept == {ret.pairs[q] : q \in 1..Len(ret.pairs)}

(* C12: image_crossings returns exactly the pairs of the crossing set    *)
(* whose two rays have the same group and the same wavelength (two rays  *)
(* without wavelength have the same), in the order of the set.           *)
C12_ImageCrossings ==
    last.call = "image_crossings" =>
        /\ \A q \in 1..Len(last.arg.pairs) :
              last.arg.pairs[q] \in Kept <=>
                  /\ last.arg.properties_from[q].group = last.arg.properties_to[q].group
                  /\ last.arg.properties_from[q].wavelength = last.arg.properties_to[q].wavelength
        /\ \A q \in 1..Len(ret.pairs) :
              \E p \in 1..Len(last.arg.pairs) :
                  /\ ret.pairs[q] = last.arg.pairs[p]
                  /\ ret.crossings[q] = last.arg.crossings[p]

(* ---------------- C13 ---------------- *)
(* C13: color_crossings returns exactly the pairs of the crossing set    *)
(* whose two rays have the same group and different wavelengths.         *)
C13_ColorCrossings ==
    last.call = "color_crossings" =>
        \A q \in 1..Len(last.arg.pairs) :
            last.arg.pairs[q] \in Kept <=>
                /\ last.arg.properties_from[q].group = last.arg.properties_to[q].group
                /\ last.arg.properties_from[q].wavelength # last.arg.properties_to[q].wavelength

(* ---------------- C14 ---------------- *)
(* the forward value of a ray whose heading in the new frame is `a`:    *)
(* advancing iff a, normalised into [0, 360), is below 90 or above 270; *)
(* not advancing for an undefined heading                               *)
C14_Forward(a) ==
    IF IsNaN(a) THEN 0 - 1
    ELSE IF Mod360(a) < 90 \/ Mod360(a) > 270 THEN 1 ELSE 0 - 1

(* C14: both frame transforms recompute forward from the heading of the  *)
(* ray minus (to the element frame) or plus (to the global frame) the    *)
(* rotation of the element, normalised into [0, 360): advancing iff the  *)
(* normalised heading is below 90 or above 270, for every rotation, also *)
(* negative ones and those of 360 degrees and more; a heading of 90      *)
(* degrees or an undefined heading gives one fixed value.                *)
C14_ForwardRecomputed ==
    [][/\ (last'.call = "to_element_frame_of_reference" /\ ops' = ops + 1) =>
            \A i \in 1..Len(Pre) :
                Post[i].forward = C14_Forward(Sub(Heading(Pre[i]), elements[1].theta))
       /\ (last'.call = "to_global_frame_of_reference" /\ ops' = ops + 1) =>
            \A i \in 1..Len(Pre) :
                Post[i].forward = C14_Forward(Add(Heading(Pre[i]), elements[1].theta))]_vars

(* ---------------- C15 ---------------- *)
(* C15: OpticalPath.append traces the appended element against the       *)
(* current batch and stores one snapshot after it: the batch after the   *)
(* call is the traced batch and the history is one entry longer, so the  *)
(* element has acted before any later propagate.                         *)
C15_AppendTraces ==
    [][Returned("OpticalPath.append") =>
         LET U == trace(elements'[Len(elements')], Now)
         IN U.ok => /\ Len(arrays') = Len(arrays) + 1
                    /\ Post = array(store(U.rays))]_vars

(* ---------------- C16 ---------------- *)
(* the call placed an element: append with a distance or an angle *)
C16_Placed ==
    /\ Returned("OpticalPath.append")
    /\ ~(last'.arg.distance = 0 /\ last'.arg.theta = 0)

(* the appended element stands at `origin` and is turned by the angle *)
C16_PlacedAt(origin) ==
    /\ elements'[Len(elements')].origin = origin
    /\ elements'[Len(elements')].theta = last'.arg.element.theta + last'.arg.theta

(* P's origin before the call, plus E's own origin turned by the angle, *)
(* plus (distance, 0) turned by `rotation`                              *)
C16_Position(rotation) ==
    LET P == elements[Len(elements)]
        own == Rotate(last'.arg.theta, last'.arg.element.origin[1], last'.arg.element.origin[2])
        diff == Rotate(rotation, last'.arg.distance, 0)
    IN <<P.origin[1] + own[1] + diff[1], P.origin[2] + own[2] + diff[2]>>

C17_ConstructionChecked ==
    (/\ last.call = "construct"
     /\ \/ last.arg.diameter < 0
        \/ last.arg.blocker_diameter <= last.arg.diameter
        \/ (last.arg.kind \in {"Lens", "ParabolicMirror"} /\ last.arg.focal_length = 0))
        => /\ ret.raised # "none"
           /\ ret.element = NoElement

(* a parabolic mirror of a good diameter and focal length 0 was refused *)
C17_Witness ==
    /\ last.call = "construct"
    /\ last.arg.kind = "ParabolicMirror"
    /\ last.arg.focal_length = 0
    /\ last.arg.diameter = 2
    /\ last.arg.blocker_diameter = 4
    /\ ret.raised = "ZeroDivisionError"

(* ---------------- C18 ---------------- *)
(* C18: constructing a DiffractionPrism with a glass that has no entry   *)
(* in the table of constants raises in the constructor; no constructed   *)
(* element fails for its glass later, in a trace.                        *)
C18_GlassChecked ==
    /\ (last.call = "construct" /\ last.arg.kind = "DiffractionPrism"
            /\ last.arg.glass \notin constants)
          => ret.raised # "none"
    /\ ~(last.call = "Element.trace" /\ ret.raised = "KeyError")

(* ---------------- C19 ---------------- *)
(* C19: a valid ray that a flat mirror at rotation 0 and x = m has just  *)
(* reflected is invalidated by propagate to any x > m and stays valid    *)
(* under propagate to any x < m when the number of reflections is odd;   *)
(* after an even number of reflections propagate to x > m keeps it valid.*)
C19_Reversal ==
    [][(last.call = "Mirror.trace" /\ last'.call = "propagate" /\ ops' = ops + 1) =>
         LET X == last'.arg[1]
             m == Mirrors[last.arg[1]].origin[1]
             odd == last.arg[2] % 2 = 1
         IN \A i \in 1..Len(Pre) :
               (Pre[i].x = m /\ ~IsNaN(Pre[i].y) /\ ~IsNaN(Pre[i].tan_theta)) =>
                   /\ (odd /\ X > m) => IsNaN(Post[i].y)
                   /\ (odd /\ X < m) => ~IsNaN(Post[i].y)
                   /\ (~odd /\ X > m) => ~IsNaN(Post[i].y)]_vars

(* the ray along the axis went from the mirror at x = 2 to the mirror at *)
(* x = 0 and, reflected a second time, has advanced to x = 1             *)
C19_Witness ==
    /\ last.call = "propagate"
    /\ last.arg = <<1, 2>>
    /\ Len(arrays) = 1
    /\ \E i \in 1..n(Now) :
          /\ array(Now)[i].x = 1
          /\ array(Now)[i].y = 0
          /\ array(Now)[i].tan_theta = 0
          /\ array(Now)[i].forward > 0

(* ---------------- C20 ---------------- *)
(* C20: for a ray with tan_theta = 0 at a height y within the half       *)
(* diameter of the mirror, ParabolicMirror.intersection_with returns the *)
(* point with x = y^2 / (4 f) and y unchanged.                           *)
C20_AxialRay ==
    [][Returned("ParabolicMirror.intersection_with") =>
         LET e == Parabolas[last'.arg]
         IN \A i \in 1..Len(Pre) :
               (Pre[i].tan_theta = 0 /\ 2 * Abs(Pre[i].y) <= e.aperture) =>
                   /\ 4 * e.f * Post[i].x = Pre[i].y * Pre[i].y
                   /\ Post[i].y = Pre[i].y]_vars


C22_RoundTripMade ==
    /\ ops = 2
    /\ \/ (last.arg = "to_element_frame_of_reference"
             /\ last.call = "to_global_frame_of_reference")
       \/ (last.arg = "to_global_frame_of_reference"
             /\ last.call = "to_element_frame_of_reference")

C29_ForwardRoundTrip ==
    (/\ ops = 2
     /\ last.arg = "to_element_frame_of_reference"
     /\ last.call = "to_global_frame_of_reference") =>
        \A i \in 1..n(Now) :
            ~IsNaN(ret.array[i].tan_theta) =>
                /\ Gt(array(Now)[i].forward, 0) <=> Gt(ret.array[i].forward, 0)
                /\ Lt(array(Now)[i].forward, 0) <=> Lt(ret.array[i].forward, 0)


(* ---------------- C23 ---------------- *)
(* the index in the crossing set `rc` of the pair that row q of the     *)
(* sliced set holds                                                     *)
C23_RowOf(rc, q) == CHOOSE p \in 1..Len(rc.pairs) : rc.pairs[p] = ret.pairs[q]

(* C23: ray_crossings over n considered rays and S recorded stages       *)
(* returns one row per unordered pair of rays (n (n - 1) / 2 rows, each  *)
(* pair once) and one column per interval between consecutive stages     *)
(* (S - 1 columns), with two property tables that hold, row by row, the  *)
(* group and wavelength of the first and of the second ray of the pair;  *)
(* the slice [pairs, intervals] of the result keeps the selected pairs   *)
(* with their own property rows and the selected columns.                *)
C23_Shape ==
    /\ last.call = "ray_crossings" =>
          LET m == Len(ret.rays)
              P == Len(ret.pairs)
          IN /\ 2 * P = m * (m - 1)
             /\ \A i, j \in 1..m : i < j =>
                   \E q \in 1..P : ret.pairs[q] = <<ret.rays[i], ret.rays[j]>>
             /\ Len(ret.crossings) = P
             /\ Len(ret.properties_from) = P
             /\ Len(ret.properties_to) = P
             /\ \A q \in 1..P :
                   /\ Len(ret.crossings[q]) = last.arg.stages - 1
                   /\ ret.properties_from[q] = last.arg.properties_array[ret.pairs[q][1]]
                   /\ ret.properties_to[q] = last.arg.properties_array[ret.pairs[q][2]]
    /\ last.call = "getitem" =>
          LET step == ret.item[1]
              lo == ret.item[2]
              hi == ret.item[3]
              rc == last.arg
              P == Len(ret.pairs)
          IN /\ P = (Len(rc.pairs) + step - 1) \div step
             /\ Len(ret.crossings) = P
             /\ Len(ret.properties_from) = P
             /\ Len(ret.properties_to) = P
             /\ \A q \in 1..P :
                   /\ ret.pairs[q] = rc.pairs[(q - 1) * step + 1]
                   /\ ret.properties_from[q] = rc.properties_from[C23_RowOf(rc, q)]
                   /\ ret.properties_to[q] = rc.properties_to[C23_RowOf(rc, q)]
                   /\ Len(ret.crossings[q]) = hi - lo
                   /\ \A k \in 1..(hi - lo) :
                         ret.crossings[q][k] = rc.crossings[C23_RowOf(rc, q)][lo + k]

(* every second pair of the crossings of three rays with three tags, in *)
(* the second interval: the pairs (1, 2) and (2, 3) with their tags     *)
C23_Witness ==
    /\ last.call = "getitem"
    /\ ret.item = <<2, 1, 2>>
    /\ Len(last.arg.pairs) = 3
    /\ ret.pairs = <<<<1, 2>>, <<2, 3>>>>
    /\ ret.properties_from[1].wavelength = 532
    /\ ret.properties_from[2].wavelength = 650
    /\ ret.properties_to[2].group = 2
    /\ Len(ret.crossings[1]) = 1


(* ---------------- C24 ---------------- *)
(* C24: a plot call (OpticalPath.plot, Rays.plot with the TracedRays.plot *)
(* it makes) changes neither the ray batch of the path nor its history   *)
(* list nor an element: the fields of the batch and the number of        *)
(* history entries are the same after the call as before it.             *)
C24_PlotReadOnly ==
    [][(\/ Returned("OpticalPath.plot")
        \/ (ret = NoReturn /\ ret'.call = "plot")) =>
            /\ arrays' = arrays
            /\ heap' = heap
            /\ elements' = elements]_vars


(* ---------------- C27 ---------------- *)
(* C27: append and append_grouped with a distance or an angle leave      *)
(* origin and rotation of the reference element, the last element of    *)
(* the path before the call, unchanged; so both elements of one          *)
(* append_grouped call stand at the same offset from it (they differ by  *)
(* their own origins, turned by the angle).                              *)
C27_ReferenceKept ==
    [][((Returned("OpticalPath.append") \/ Returned("OpticalPath.append_grouped"))
          /\ ~(last'.arg.distance = 0 /\ last'.arg.theta = 0)) =>
            LET L == Len(elements)
                t == last'.arg.theta
            IN /\ elements'[L].origin = elements[L].origin
               /\ elements'[L].theta = elements[L].theta
               /\ Returned("OpticalPath.append_grouped") =>
                     LET own1 == Rotate(t, Catalog[1].origin[1], Catalog[1].origin[2])
                         own2 == Rotate(t, Catalog[3].origin[1], Catalog[3].origin[2])
                     IN /\ elements'[L + 1].origin[1] - own1[1]
                              = elements'[L + 2].origin[1] - own2[1]
                        /\ elements'[L + 1].origin[2] - own1[2]
                              = elements'[L + 2].origin[2] - own2[2]]_vars


(* ---------------- C28 ---------------- *)
(* C28: every forward value of a batch is read alike by propagate        *)
(* (advancing iff forward > 0) and by the frame transforms (heading      *)
(* backward iff forward < 0): no ray is not advancing for the one and    *)
(* not heading backward for the others.                                  *)
C28_ForwardConsistent ==
    \A i \in 1..n(Now) :
        Gt(array(Now)[i].forward, 0) \/ Lt(array(Now)[i].forward, 0)


C26_Invalid(r) == IsNaN(r.y) \/ IsNaN(r.tan_theta)

C26_Calls ==
    {"propagate", "second.propagate", "OpticalPath.propagate", "OpticalPath.trace", "Mirror.trace"}

(* C26: invalidation is absorbing.  A ray whose y or tan_theta is unset   *)
(* keeps an unset y or tan_theta over every call on the batch, an unset y *)
(* stays unset over every call, and after every propagate step and every  *)
(* element trace of a path (any element of the catalog) the y of a ray     *)
(* that was invalid before the call is unset.                              *)
C26_Absorbing ==
    [][\A q \in 1..n(Now) :
         LET r == array(Now)[q]
             s == heap'[arrays'[Len(arrays')]][q]
         IN /\ C26_Invalid(r) => C26_Invalid(s)
            /\ IsNaN(r.y) => IsNaN(s.y)
            /\ (C26_Invalid(r) /\ last'.call \in C26_Calls /\ (ops' # ops \/ pc' # pc))
                  => IsNaN(s.y)]_vars

(* a ray that the stage before the traced element recorded as invalid is  *)
(* invalid after the trace of the path                                     *)
C26_Witness ==
    /\ last.call = "OpticalPath.trace"
    /\ Len(arrays) >= 3
    /\ \E q \in 1..Len(heap[arrays[Len(arrays) - 2]]) :
          /\ C26_Invalid(heap[arrays[Len(arrays) - 2]][q])
          /\ IsNaN(array(Now)[q].y)


(* C30: ray_crossings(element = k) considers exactly the rays whose       *)
(* recorded position at stage k has both x and y set, so the number of    *)
(* pairs is v * (v - 1) / 2 for v the number of those rays.               *)
C30_OnlyValid ==
    (ret.call = "ray_crossings" /\ ret.element # None) =>
        LET table == complete_array(Now)
            valid == {i \in 1..Len(table) :
                         /\ ~IsNaN(table[i][ret.element + 1].x)
                         /\ ~IsNaN(table[i][ret.element + 1].y)}
            v == Cardinality(valid)
        IN /\ {ret.rays[q] : q \in 1..Len(ret.rays)} = valid
           /\ 2 * Len(ret.pairs) = v * (v - 1)


(* C25: DiffractionGrating.transform_rays gives every ray the heading     *)
(* arcsin(sin(arctan(tan_theta)) - m * lambda / d), unset where the       *)
(* argument leaves [-1, 1], and diffraction_angle_for gives the same      *)
(* angle for the same incidence and wavelength.                           *)
C25_GratingEquation ==
    last.call = "DiffractionGrating.transform_rays" =>
        \A i \in 1..Len(ret.sin_theta) :
            LET e == ret.element
                s == last.arg.sin_theta[i]
                w == ret.wavelength[i]
                a == s - (e.interference * w) \div e.grating
                theta == CASE s = 707 -> 0 - 45 [] s = 0 - 707 -> 45 [] OTHER -> 0
            IN /\ ret.sin_theta[i] = (IF IsNaN(s) \/ Abs(a) > 1000 THEN NaN ELSE a)
               /\ ~IsNaN(s) => ret.sin_theta[i] = diffraction_angle_for(e, w, theta).sin

====
